---------------------------- MODULE Spec2Model ----------------------------
(***************************************************************************)
(* The event-source hub of server.go: the actor goroutine Server.run, the  *)
(* connection handlers returned by Server.Handler, the replay goroutines   *)
(* and the callers of Register, Publish, PublishComment, CloseChannel and  *)
(* Close.                                                                  *)
(*                                                                         *)
(* Unbuffered Go channels are rendezvous: a call such as Publish is one    *)
(* action, enabled while the actor sits in its select, that hands the      *)
(* message over and runs the matching case.  The two fan-out cases are     *)
(* stepped subscriber by subscriber, because handlers and replay           *)
(* goroutines read and write the subscriber queues meanwhile and because   *)
(* the send on srv.unregister inside the loop can block.  A panic that Go  *)
(* does not recover ends the process: it is recorded in fault and no       *)
(* action is enabled afterwards.                                           *)
(***************************************************************************)
EXTENDS Integers, Sequences, FiniteSets, TLC

\* Bounds of the model: the most connections opened, the most Publish calls
\* made, and the largest BufferSize explored.
MaxSubs == 2
MaxEvents == 3
MaxBuffer == 2

\* make(chan *subscription, 2)
UnregisterCap == 2

SubIds == 1..MaxSubs
Channels == {"a", "b"}
ChannelLists == {<<"a">>, <<"b">>, <<"a", "b", "a">>}
LastEventIds == {"", "5"}
Repos == {"r1", "r2"}
\* The channel that callers register repositories for and close.
RegisterInputs == {"a"}
KillInputs == {"a"}

\* A panic that ends the process: what it is, where it is raised, and the
\* subscription it is about (0: none).
Panic(what, site, s) == [what |-> what, site |-> site, sub |-> s]
NoFault == Panic("none", "", 0)
SendOnClosed == "send on closed channel"
CloseOfClosed == "close of closed channel"

\* The families of runs explored.  Each bounds what the callers do: how many
\* connections are opened, how many events are published, whether comments
\* are published, whether repositories are registered (and then whether
\* requests carry a Last-Event-ID and ReplayAll is set), and BufferSize.
Workload(h, e, c, r, b) ==
    [handlers |-> h, events |-> e, comments |-> c, repos |-> r, buffer |-> b]

\* One connection that is sent one event more than its queue holds, for
\* every BufferSize explored.
ScenarioWorkloads == {Workload(1, b + 1, FALSE, FALSE, b) : b \in 1..MaxBuffer}

Workloads ==
    { Workload(MaxSubs, 1, FALSE, FALSE, 1),    \* the most connections
      Workload(1, MaxEvents, FALSE, FALSE, 1),  \* the most publishes
      Workload(2, 2, FALSE, FALSE, 1),          \* two slow connections
      Workload(2, 0, TRUE, FALSE, 1),           \* comments to two connections
      Workload(1, 2, TRUE, FALSE, 1),           \* events and comments
      Workload(1, 2, FALSE, TRUE, 1) }          \* replay and events
    \cup ScenarioWorkloads

VARIABLES
    limits,         \* the workload of this run
    bufferSize,     \* Server.BufferSize
    replayAll,      \* Server.ReplayAll
    subs,           \* run: subs, channel -> set of subscriptions
    repos,          \* run: repos, channel -> repository
    deadChannels,   \* Server.deadChannels, the channels mapped to true
    dead,           \* Server.dead; the hub's channels are closed with it
    unregister,     \* Server.unregister, the buffered channel's content
    pc,             \* where the actor is: select, fanout, unreg_send, done
    cur,            \* the fan-out in progress
    fault,          \* the panic that ended the process, or NoFault
    hpc,            \* where each handler is
    chan,           \* subscription.channel
    lastId,         \* subscription.lastEventId
    hist,           \* every event ever sent on subscription.out, in order
    drained,        \* how many of them the handler has received
    cout,           \* subscription.cout, the buffered channel's content
    rpc,            \* where each replay goroutine is: none, run, done
    stream,         \* what is left of repo.Replay(...) for the goroutine
    nPub,           \* history: how many Publish calls the actor has received
    expect,         \* history: the events published to the sub's channel
                    \* while it was in the subscriber set
    owed,           \* history: a fan-out found this sub's queue full
    installed,      \* history: the repository of the latest Register call
                    \* for each channel
    destroyedBy     \* which case of run called destroy() on the sub, or none

hubVars == <<subs, repos, deadChannels, dead, unregister, pc, cur>>
subVars == <<chan, lastId, hist, drained, cout, destroyedBy>>
taskVars == <<hpc, rpc, stream>>
histVars == <<nPub, expect, owed, installed>>
cfgVars == <<limits, bufferSize, replayAll>>
vars == <<cfgVars, hubVars, subVars, taskVars, histVars, fault>>

---------------------------------------------------------------------------
\* Events.  A live event carries its publish number and the channels list
\* it was published with; a replayed one carries the repository and channel
\* it was read from and its place in that history.

Live(n, chs) == [kind |-> "live", n |-> n, chs |-> chs, repo |-> ""]
Replayed(r, c, i) == [kind |-> "replay", n |-> i, chs |-> <<c>>, repo |-> r]

\* The ids a repository stores, oldest first.
RepoLog(r) == IF r = "r1" THEN <<"6", "7">> ELSE <<"5", "6">>

RECURSIVE IndexOf(_, _, _)
IndexOf(log, id, i) ==
    IF i > Len(log) THEN 0
    ELSE IF log[i] = id THEN i
    ELSE IndexOf(log, id, i + 1)

\* Repository.Replay(channel, lastEventId): the stored events after id, in
\* order; all of them when id is empty or unknown.
Replay(r, c, id) ==
    LET from == IndexOf(RepoLog(r), id, 1) + 1
    IN  [i \in 1..(Len(RepoLog(r)) - from + 1) |-> Replayed(r, c, from + i - 1)]

\* The content of the buffered channel subscription.out.
out(s) == SubSeq(hist[s], drained[s] + 1, Len(hist[s]))

---------------------------------------------------------------------------
\* out and cout are closed: destroy() has run on the subscription.
closed(s) == destroyedBy[s] # "none"

Idle == [kind |-> "none", item |-> Live(0, <<>>), cmt |-> <<>>, chans |-> <<>>,
         todo |-> {}, pend |-> 0]

Init ==
    /\ limits \in Workloads
    /\ bufferSize = limits.buffer
    /\ replayAll \in (IF limits.repos THEN BOOLEAN ELSE {FALSE})
    /\ subs = <<>>
    /\ repos = <<>>
    /\ deadChannels = {}
    /\ dead = FALSE
    /\ unregister = <<>>
    /\ pc = "select"
    /\ cur = Idle
    /\ fault = NoFault
    /\ hpc = [s \in SubIds |-> "idle"]
    /\ chan = [s \in SubIds |-> ""]
    /\ lastId = [s \in SubIds |-> ""]
    /\ hist = [s \in SubIds |-> <<>>]
    /\ drained = [s \in SubIds |-> 0]
    /\ cout = [s \in SubIds |-> <<>>]
    /\ rpc = [s \in SubIds |-> "none"]
    /\ stream = [s \in SubIds |-> <<>>]
    /\ nPub = 0
    /\ expect = [s \in SubIds |-> <<>>]
    /\ owed = [s \in SubIds |-> FALSE]
    /\ installed = <<>>
    /\ destroyedBy = [s \in SubIds |-> "none"]

Running == fault = NoFault

\* A faulty AtSelect: the inbox is also served in the middle of a fan-out.
AtAnyPoint == Running /\ ~dead

\* The actor waits in its select for the next message.
AtSelect == Running /\ pc = "select" /\ ~dead


---------------------------------------------------------------------------
\* Helpers of the actor.

\* A faulty Targets: the fan-out visits the subscribers of every channel.
TargetsAny(c) == UNION {subs[k] : k \in DOMAIN subs}

\* range subs[c]: the subscriptions a fan-out visits for channel c.
Targets(c) == IF c \in DOMAIN subs THEN subs[c] ELSE {}

\* A faulty HasRoom: the queue takes one item more than BufferSize.
HasRoomOffByOne(q) == Len(q) <= bufferSize

\* A send on a buffered channel of capacity BufferSize can proceed.
HasRoom(q) == Len(q) < bufferSize

\* A faulty QueueOf: the comment fan-out looks at the event queue.
QueueOfOut(kind, s) == out(s)

\* The buffered channel a fan-out sends on: s.out for an event, s.cout for a
\* comment.
QueueOf(kind, s) == IF kind = "pub" THEN out(s) ELSE cout[s]

\* A faulty Send: the value jumps the queue.
SendFront(q, e) == <<e>> \o q

\* A channel send: the value joins the back of the queue.
Send(q, e) == Append(q, e)

\* subs[sub.channel][sub] = struct{}{}, creating the inner map when missing.
AddSub(c, s) ==
    [k \in DOMAIN subs \cup {c} |-> IF k = c THEN Targets(c) \cup {s} ELSE subs[k]]

\* A faulty DeleteSubs: the delete is forgotten.
DeleteNone(c, S) == subs

\* delete(subs[c], s) for every s of S.
DeleteSubs(c, S) ==
    [k \in DOMAIN subs |-> IF k = c THEN subs[k] \ S ELSE subs[k]]

\* destroy() on every subscription of S, in case `by` of run.
Destroy(S, by) ==
    [s \in SubIds |-> IF s \in S THEN by ELSE destroyedBy[s]]

\* The channels a list names.
Named(chs) == {chs[i] : i \in 1..Len(chs)}

\* History: a Publish to chs reaches the members of the channels it names.
Expected(e) ==
    [s \in SubIds |->
        IF \E c \in Named(e.chs) : s \in (IF c \in DOMAIN subs THEN subs[c] ELSE {})
        THEN Append(expect[s], e) ELSE expect[s]]

\* Every subscription held in some channel's subscriber set.
Members == UNION {subs[c] : c \in DOMAIN subs}

\* The loops "for _, c := range channels { for s := range subs[c] {": move
\* to the next channel that still has a subscriber to visit, or finish.
RECURSIVE Advance(_)
Advance(f) ==
    IF f.todo # {} THEN f
    ELSE IF Len(f.chans) <= 1 THEN Idle
    ELSE Advance([f EXCEPT !.chans = Tail(f.chans),
                           !.todo = Targets(Head(Tail(f.chans)))])

PcAfter(f) == IF f.kind = "none" THEN "select" ELSE "fanout"

\* An unsynchronised read of a flag the actor sets: the value, or the one
\* from before the actor's write.
RacyRead(b) == IF b THEN {TRUE, FALSE} ELSE {FALSE}

\* A faulty MarkDead: the marker is flipped instead of set.
MarkDeadFlip(c) ==
    IF c \in deadChannels THEN deadChannels \ {c} ELSE deadChannels \cup {c}

\* srv.deadChannels[die] = true
MarkDead(c) == deadChannels \cup {c}

\* A faulty WantsReplay: both conditions are asked for.
WantsReplayBoth(s) == replayAll /\ lastId[s] # ""

\* if srv.ReplayAll || len(sub.lastEventId) > 0
WantsReplay(s) == replayAll \/ lastId[s] # ""

\* A faulty RangeNext: the goroutine forwards the newest event first.
RangeNextLast(q) == q[Len(q)]

\* for ev := range repo.Replay(...): the next event received.
RangeNext(q) == Head(q)

---------------------------------------------------------------------------
\* The callers' operations and the matching cases of run.

\* Register, and case reg := <-srv.registrations.
Register(c, r) ==
    /\ Running
    /\ limits.repos
    /\ IF dead
       THEN /\ fault' = Panic(SendOnClosed, "Register", 0)
            /\ UNCHANGED <<repos, installed>>
       ELSE /\ pc = "select"
            /\ repos' = [k \in DOMAIN repos \cup {c} |->
                            IF k = c THEN r ELSE repos[k]]
            /\ installed' = (c :> r) @@ installed
            /\ UNCHANGED fault
    /\ UNCHANGED <<cfgVars, subs, deadChannels, dead, unregister, pc, cur,
                   subVars, taskVars, nPub, expect, owed>>

\* case sub := <-srv.unregister.
RunUnregister ==
    /\ AtSelect
    /\ unregister # <<>>
    /\ LET s == Head(unregister)
       IN  /\ unregister' = Tail(unregister)
           /\ IF closed(s)
              THEN /\ fault' = Panic(CloseOfClosed, "unregister", s)
                   /\ UNCHANGED <<subs, destroyedBy>>
              ELSE /\ destroyedBy' = Destroy({s}, "unregister")
                   /\ subs' = DeleteSubs(chan[s], {s})
                   /\ UNCHANGED fault
    /\ UNCHANGED <<cfgVars, repos, deadChannels, dead, pc, cur, chan, lastId,
                   hist, drained, cout, taskVars, histVars>>

\* Publish, and case pub := <-srv.pub up to the first subscriber.
Publish(chs) ==
    /\ Running
    /\ nPub < limits.events
    /\ IF dead
       THEN /\ fault' = Panic(SendOnClosed, "Publish", 0)
            /\ UNCHANGED <<nPub, expect, cur, pc>>
       ELSE /\ pc = "select"
            /\ nPub' = nPub + 1
            /\ expect' = Expected(Live(nPub + 1, chs))
            /\ LET f == Advance([kind |-> "pub", item |-> Live(nPub + 1, chs),
                                 cmt |-> <<>>, chans |-> chs,
                                 todo |-> Targets(Head(chs)), pend |-> 0])
               IN  cur' = f /\ pc' = PcAfter(f)
            /\ UNCHANGED fault
    /\ UNCHANGED <<cfgVars, subs, repos, deadChannels, dead, unregister,
                   subVars, taskVars, owed, installed>>

\* PublishComment, and case cmt := <-srv.comments up to the first subscriber.
PublishComment(chs) ==
    /\ Running
    /\ limits.comments
    /\ IF dead
       THEN /\ fault' = Panic(SendOnClosed, "PublishComment", 0)
            /\ UNCHANGED <<cur, pc>>
       ELSE /\ pc = "select"
            /\ LET f == Advance([kind |-> "cmt", item |-> Live(0, <<>>),
                                 cmt |-> chs, chans |-> chs,
                                 todo |-> Targets(Head(chs)), pend |-> 0])
               IN  cur' = f /\ pc' = PcAfter(f)
            /\ UNCHANGED fault
    /\ UNCHANGED <<cfgVars, subs, repos, deadChannels, dead, unregister,
                   subVars, taskVars, histVars>>

\* One pass of the inner loop of either fan-out: the select with a default.
FanoutStep(s) ==
    /\ Running
    /\ pc = "fanout"
    /\ s \in cur.todo
    /\ LET rest == [cur EXCEPT !.todo = @ \ {s}]
           q == QueueOf(cur.kind, s)
       IN  IF closed(s)
           THEN /\ fault' = Panic(SendOnClosed, "fanout", s)
                /\ UNCHANGED <<pc, cur, hist, cout, owed>>
           ELSE IF HasRoom(q)
           THEN /\ IF cur.kind = "pub"
                   THEN /\ hist' = [hist EXCEPT ![s] = Send(@, cur.item)]
                        /\ UNCHANGED cout
                   ELSE /\ cout' = [cout EXCEPT ![s] = Send(@, cur.cmt)]
                        /\ UNCHANGED hist
                /\ cur' = Advance(rest)
                /\ pc' = PcAfter(Advance(rest))
                /\ UNCHANGED <<fault, owed>>
           ELSE /\ cur' = [rest EXCEPT !.pend = s]
                /\ pc' = "unreg_send"
                /\ owed' = [owed EXCEPT ![s] = TRUE]
                /\ UNCHANGED <<fault, hist, cout>>
    /\ UNCHANGED <<cfgVars, subs, repos, deadChannels, dead, unregister,
                   chan, lastId, drained, destroyedBy, taskVars, nPub, expect,
                   installed>>

\* default: srv.unregister <- s, a send that waits for room in the buffer.
UnregSend ==
    /\ Running
    /\ pc = "unreg_send"
    /\ Len(unregister) < UnregisterCap
    /\ unregister' = Append(unregister, cur.pend)
    /\ LET f == Advance([cur EXCEPT !.pend = 0])
       IN  cur' = f /\ pc' = PcAfter(f)
    /\ UNCHANGED <<cfgVars, subs, repos, deadChannels, dead, subVars,
                   taskVars, histVars, fault>>

\* CloseChannel, and case die := <-srv.kill.
CloseChannel(c) ==
    /\ Running
    /\ IF dead
       THEN /\ fault' = Panic(SendOnClosed, "CloseChannel", 0)
            /\ UNCHANGED <<subs, deadChannels, destroyedBy>>
       ELSE /\ pc = "select"
            /\ IF \E s \in Targets(c) : closed(s)
               THEN /\ fault' = Panic(CloseOfClosed, "kill",
                                       CHOOSE s \in Targets(c) : closed(s))
                    /\ UNCHANGED <<subs, deadChannels, destroyedBy>>
               ELSE /\ destroyedBy' = Destroy(Targets(c), "kill")
                    /\ subs' = DeleteSubs(c, Targets(c))
                    /\ deadChannels' = MarkDead(c)
                    /\ UNCHANGED fault
    /\ UNCHANGED <<cfgVars, repos, dead, unregister, pc, cur, chan, lastId,
                   hist, drained, cout, taskVars, histVars>>

\* Close, and case <-srv.quit.
Close ==
    /\ Running
    /\ IF dead
       THEN /\ fault' = Panic(SendOnClosed, "Close", 0)
            /\ UNCHANGED <<dead, pc, destroyedBy>>
       ELSE /\ pc = "select"
            /\ IF \E s \in Members : closed(s)
               THEN /\ fault' = Panic(CloseOfClosed, "quit",
                                       CHOOSE s \in Members : closed(s))
                    /\ UNCHANGED <<dead, pc, destroyedBy>>
               ELSE /\ destroyedBy' = Destroy(Members, "quit")
                    /\ dead' = TRUE
                    /\ pc' = "done"
                    /\ UNCHANGED fault
    /\ UNCHANGED <<cfgVars, subs, repos, deadChannels, unregister, cur, chan,
                   lastId, hist, drained, cout, taskVars, histVars>>

---------------------------------------------------------------------------
\* The connection handler of Server.Handler and the replay goroutine.

\* The handler up to the creation of its subscription: the two checks of
\* the dead flags, then sub := &subscription{...}.
HandlerStart(s, c, id) ==
    /\ Running
    /\ hpc[s] = "idle"
    /\ s <= limits.handlers
    /\ limits.repos \/ id = ""
    /\ \A t \in SubIds : t < s => hpc[t] # "idle"
    /\ \E seesDead \in RacyRead(dead), seesClosed \in RacyRead(c \in deadChannels) :
          IF seesDead
          THEN /\ hpc' = [hpc EXCEPT ![s] = "gone"]
               /\ UNCHANGED <<chan, lastId>>
          ELSE IF seesClosed
          THEN /\ hpc' = [hpc EXCEPT ![s] = "refused"]
               /\ UNCHANGED <<chan, lastId>>
          ELSE /\ hpc' = [hpc EXCEPT ![s] = "sending"]
               /\ chan' = [chan EXCEPT ![s] = c]
               /\ lastId' = [lastId EXCEPT ![s] = id]
    /\ UNCHANGED <<cfgVars, hubVars, hist, drained, cout, destroyedBy, rpc,
                   stream, histVars, fault>>

\* srv.subs <- sub, and case sub := <-srv.subs.
Subscribe(s) ==
    /\ Running
    /\ hpc[s] = "sending"
    /\ IF dead
       THEN /\ hpc' = [hpc EXCEPT ![s] = "panic"]
            /\ UNCHANGED <<subs, rpc, stream>>
       ELSE /\ pc = "select"
            /\ subs' = AddSub(chan[s], s)
            /\ hpc' = [hpc EXCEPT ![s] = "loop"]
            /\ IF WantsReplay(s) /\ chan[s] \in DOMAIN repos
                  /\ Replay(repos[chan[s]], chan[s], lastId[s]) # <<>>
               THEN /\ rpc' = [rpc EXCEPT ![s] = "run"]
                    /\ stream' = [stream EXCEPT ![s] =
                                    Replay(repos[chan[s]], chan[s], lastId[s])]
               ELSE /\ rpc' = [rpc EXCEPT ![s] =
                                 IF WantsReplay(s) /\ chan[s] \in DOMAIN repos
                                 THEN "done" ELSE "none"]
                    /\ UNCHANGED stream
    /\ UNCHANGED <<cfgVars, repos, deadChannels, dead, unregister, pc, cur,
                   subVars, histVars, fault>>

\* replay: one pass of "for ev := range ... { sub.out <- ev }".
ReplayStep(s) ==
    /\ Running
    /\ rpc[s] = "run"
    /\ IF closed(s)
       THEN /\ fault' = Panic(SendOnClosed, "replay", s)
            /\ UNCHANGED <<hist, stream, rpc>>
       ELSE /\ HasRoom(out(s))
            /\ hist' = [hist EXCEPT ![s] = Send(@, RangeNext(stream[s]))]
            /\ stream' = [stream EXCEPT ![s] = Tail(@)]
            /\ rpc' = [rpc EXCEPT ![s] =
                         IF Len(stream[s]) = 1 THEN "done" ELSE "run"]
            /\ UNCHANGED fault
    /\ UNCHANGED <<cfgVars, hubVars, chan, lastId, drained, cout, destroyedBy,
                   hpc, histVars>>

\* case ev, ok := <-sub.out with ok: the event is written to the client.
HandlerEvent(s) ==
    /\ Running
    /\ hpc[s] = "loop"
    /\ out(s) # <<>>
    /\ drained' = [drained EXCEPT ![s] = @ + 1]
    /\ UNCHANGED <<cfgVars, hubVars, chan, lastId, hist, cout, destroyedBy,
                   taskVars, histVars, fault>>

\* case comment, ok := <-sub.cout with ok.
HandlerComment(s) ==
    /\ Running
    /\ hpc[s] = "loop"
    /\ cout[s] # <<>>
    /\ cout' = [cout EXCEPT ![s] = Tail(@)]
    /\ UNCHANGED <<cfgVars, hubVars, chan, lastId, hist, drained, destroyedBy,
                   taskVars, histVars, fault>>

\* A receive with !ok on out or cout: closed and empty; the handler returns.
HandlerClosed(s) ==
    /\ Running
    /\ hpc[s] = "loop"
    /\ closed(s)
    /\ out(s) = <<>> \/ cout[s] = <<>>
    /\ hpc' = [hpc EXCEPT ![s] = "done"]
    /\ UNCHANGED <<cfgVars, hubVars, subVars, rpc, stream, histVars, fault>>

\* srv.unregister <- sub after CloseNotify or a failed write; return.
HandlerUnregister(s) ==
    /\ Running
    /\ hpc[s] = "loop"
    /\ IF dead
       THEN /\ hpc' = [hpc EXCEPT ![s] = "panic"]
            /\ UNCHANGED unregister
       ELSE /\ Len(unregister) < UnregisterCap
            /\ unregister' = Append(unregister, s)
            /\ hpc' = [hpc EXCEPT ![s] = "done"]
    /\ UNCHANGED <<cfgVars, subs, repos, deadChannels, dead, pc, cur, subVars,
                   rpc, stream, histVars, fault>>

---------------------------------------------------------------------------
Next ==
    \/ \E c \in RegisterInputs, r \in Repos : Register(c, r)
    \/ RunUnregister
    \/ \E chs \in ChannelLists : Publish(chs)
    \/ \E chs \in ChannelLists : PublishComment(chs)
    \/ \E s \in SubIds : FanoutStep(s)
    \/ UnregSend
    \/ \E c \in KillInputs : CloseChannel(c)
    \/ Close
    \/ \E s \in SubIds, c \in Channels, id \in LastEventIds : HandlerStart(s, c, id)
    \/ \E s \in SubIds : Subscribe(s)
    \/ \E s \in SubIds : ReplayStep(s)
    \/ \E s \in SubIds : HandlerEvent(s)
    \/ \E s \in SubIds : HandlerComment(s)
    \/ \E s \in SubIds : HandlerClosed(s)
    \/ \E s \in SubIds : HandlerUnregister(s)

Spec == Init /\ [][Next]_vars

---------------------------------------------------------------------------
\* The scenario of one connection that is sent BufferSize + 1 events.  The
\* actor's select takes a ready case at random, so a case that stays ready is
\* taken, and the actor's own steps are taken: weak fairness on them.

InitScenario == Init /\ limits \in ScenarioWorkloads

\* The scenario's publishes each name one channel.
ScenarioLists == {<<c>> : c \in Channels}

NextScenario ==
    \/ RunUnregister
    \/ \E chs \in ScenarioLists : Publish(chs)
    \/ \E s \in SubIds : FanoutStep(s)
    \/ UnregSend
    \/ \E c \in KillInputs : CloseChannel(c)
    \/ Close
    \/ \E s \in SubIds, c \in Channels, id \in LastEventIds : HandlerStart(s, c, id)
    \/ \E s \in SubIds : Subscribe(s)
    \/ \E s \in SubIds : HandlerEvent(s)
    \/ \E s \in SubIds : HandlerClosed(s)
    \/ \E s \in SubIds : HandlerUnregister(s)

SpecScenario ==
    /\ InitScenario
    /\ [][NextScenario]_vars
    /\ WF_vars(RunUnregister)
    /\ WF_vars(UnregSend)
    /\ WF_vars(\E s \in SubIds : FanoutStep(s))

---------------------------------------------------------------------------
\* Shutdown of a hub with one connection, under any channels lists.  The
\* caller of Close waits in "srv.quit <- true" until the actor's select takes
\* it: the select picks among its ready cases at random, so a Close that is
\* ready again and again is taken (strong fairness).

NextShutdown ==
    \/ RunUnregister
    \/ \E chs \in ChannelLists : Publish(chs)
    \/ \E s \in SubIds : FanoutStep(s)
    \/ UnregSend
    \/ \E c \in KillInputs : CloseChannel(c)
    \/ Close
    \/ \E s \in SubIds, c \in Channels, id \in LastEventIds : HandlerStart(s, c, id)
    \/ \E s \in SubIds : Subscribe(s)
    \/ \E s \in SubIds : HandlerEvent(s)
    \/ \E s \in SubIds : HandlerClosed(s)
    \/ \E s \in SubIds : HandlerUnregister(s)

SpecShutdown ==
    /\ InitScenario
    /\ [][NextShutdown]_vars
    /\ WF_vars(RunUnregister)
    /\ WF_vars(UnregSend)
    /\ WF_vars(\E s \in SubIds : FanoutStep(s))
    /\ SF_vars(Close)

---------------------------------------------------------------------------
\* Vocabulary of the properties.

IsLive(e) == e.kind = "live"
IsReplayed(e) == e.kind = "replay"
LiveOf(h) == SelectSeq(h, IsLive)
ReplayOf(h) == SelectSeq(h, IsReplayed)
IsPrefix(a, b) == Len(a) <= Len(b) /\ SubSeq(b, 1, Len(a)) = a
Front(q) == SubSeq(q, 1, Len(q) - 1)
InSeq(e, q) == \E i \in 1..Len(q) : q[i] = e

\* The actor waits in "srv.unregister <- s" on a full buffer.  Only the actor
\* receives from srv.unregister, and only from its select: it waits forever.
ActorStuck == pc = "unreg_send" /\ Len(unregister) >= UnregisterCap

\* A fan-out of a Publish is in progress and has yet to visit s.
Unvisited(s) ==
    /\ pc \in {"fanout", "unreg_send"}
    /\ cur.kind = "pub"
    /\ \/ s \in cur.todo
       \/ /\ s \in Members
          /\ \E i \in 2..Len(cur.chans) : cur.chans[i] = chan[s]

\* Every Publish that reached s named s's channel once.
OncePerPublish(s) ==
    \A i \in 1..Len(expect[s]) :
        Cardinality({k \in 1..Len(expect[s][i].chs) :
                        expect[s][i].chs[k] = chan[s]}) = 1

\* The Unregister request of a fan-out for s is about to be sent, is in the
\* actor's inbox, or has been carried out.
UnregisterIssued(s) ==
    \/ pc = "unreg_send" /\ cur.pend = s
    \/ InSeq(s, unregister)
    \/ closed(s)

---------------------------------------------------------------------------
\* C1: an event that a Publish does not enqueue on a registered subscription
\* s gets s unregistered: there is no state in which the Publish found s's
\* queue full, the event is not on s's queue, s is still in its subscriber
\* set, and the Unregister request for s can never be issued nor served.
C1_DropMeansUnregistered ==
    \A s \in SubIds :
        ~(/\ ActorStuck
          /\ cur.kind = "pub"
          /\ cur.pend = s
          /\ s \in Members
          /\ ~closed(s)
          /\ ~InSeq(cur.item, hist[s]))

\* C2: no Publish or PublishComment blocks the actor: it never waits on a
\* full unregister inbox in the middle of a fan-out.
C2_FanoutNeverBlocks == ~ActorStuck

\* C3: a second Unregister request for a subscription that an Unregister has
\* already destroyed is a no-op: it does not close the queues again.
C3_UnregisterIdempotent ==
    \A s \in SubIds :
        ~(/\ fault = Panic(CloseOfClosed, "unregister", s)
          /\ destroyedBy[s] = "unregister")

\* C4: no subscription is in the subscriber set of a channel marked dead.
C4_DeadChannelHasNoSubscribers ==
    \A c \in deadChannels : Targets(c) = {}

\* C5: once Close has been processed every subscription in a subscriber set
\* is destroyed, and no later step faults or changes the hub's state.
C5_AfterShutdownNoop ==
    [][dead => /\ \A s \in Members : closed(s)
               /\ fault' = NoFault
               /\ \A s \in SubIds : hpc'[s] = "panic" => hpc[s] = "panic"
               /\ hubVars' = hubVars]_vars

\* C6: a replay goroutine whose subscription has been destroyed never faults.
C6_ReplayToleratesDestroy ==
    \A s \in SubIds : fault # Panic(SendOnClosed, "replay", s)

\* C7 as stated: for a subscription admitted with a non-empty lastEventId
\* the replayed events are enqueued in repository order, and on its queue
\* no live event (every one of them was published after the admission)
\* comes before a replayed event.
C7_ReplayBeforeLive ==
    \A s \in SubIds :
        lastId[s] # "" =>
            /\ \A i \in 1..Len(ReplayOf(hist[s])) :
                   LET R == Replay(ReplayOf(hist[s])[i].repo, chan[s], lastId[s])
                   IN  i <= Len(R) /\ ReplayOf(hist[s])[i] = R[i]
            /\ \A i, j \in 1..Len(hist[s]) :
                   (i < j /\ IsLive(hist[s][i])) => ~IsReplayed(hist[s][j])

\* The replayed events on a subscription's queue are the first events of
\* the repository's sequence for its channel and lastEventId, in the
\* repository's order, each once.
C7_RepositoryOrder ==
    \A s \in SubIds :
        LET rs == ReplayOf(hist[s])
        IN  \A i \in 1..Len(rs) :
                LET R == Replay(rs[i].repo, chan[s], lastId[s])
                IN  i <= Len(R) /\ rs[i] = R[i]

\* Once the replay goroutine has sent its last event, the queue only grows
\* by a live event at its back.
C7_LiveAfterReplayDone ==
    \A s \in SubIds :
        (rpc[s] = "done" /\ hist'[s] # hist[s]) =>
            /\ Len(hist'[s]) = Len(hist[s]) + 1
            /\ IsPrefix(hist[s], hist'[s])
            /\ IsLive(hist'[s][Len(hist'[s])])

\* C7 as amended: the replayed events are enqueued in repository order, and
\* every replayed event precedes every live event whose Publish is
\* processed after the replay goroutine has enqueued its last event.
C7_ReplayInRepositoryOrder ==
    /\ []C7_RepositoryOrder
    /\ [][C7_LiveAfterReplayDone]_vars

\* A request with a Last-Event-ID whose two replayed events were enqueued
\* and followed by a live event published after the replay had ended.
C7_Witness ==
    \E s \in SubIds :
        /\ lastId[s] # ""
        /\ rpc[s] = "done"
        /\ Len(hist[s]) = 3
        /\ IsReplayed(hist[s][1])
        /\ IsReplayed(hist[s][2])
        /\ IsLive(hist[s][3])

\* C8: a subscription that is never drained and has no replay holds the
\* first BufferSize events published to its channel, in publish order, and
\* nothing else; the publish after them enqueues nothing and issues an
\* Unregister request for it; and it ends up destroyed.
C8_QueueIsFirstEvents ==
    \A s \in SubIds :
        (drained[s] = 0 /\ rpc[s] = "none" /\ OncePerPublish(s)) =>
            /\ Len(hist[s]) <= bufferSize
            /\ IsPrefix(hist[s], expect[s])
            /\ \/ Len(hist[s]) = Len(expect[s])
               \/ (Len(hist[s]) = Len(expect[s]) - 1 /\ Unvisited(s))
               \/ (Len(hist[s]) = bufferSize /\ owed[s])
            /\ (Len(expect[s]) > bufferSize /\ ~Unvisited(s)) => owed[s]
            /\ owed[s] => UnregisterIssued(s)

C8_Backpressure ==
    /\ []C8_QueueIsFirstEvents
    /\ \A s \in SubIds : owed[s] ~> closed(s)

\* With the largest BufferSize: the queue is full, never drained, the next
\* event was refused and the subscription was destroyed by the Unregister.
C8_Witness ==
    \E s \in SubIds :
        /\ bufferSize = MaxBuffer
        /\ drained[s] = 0
        /\ OncePerPublish(s)
        /\ Len(hist[s]) = bufferSize
        /\ Len(expect[s]) = bufferSize + 1
        /\ owed[s]
        /\ destroyedBy[s] = "unregister"

\* C9: everything on a subscription's event queue and comment queue was
\* published with its channel in the channels list, or replayed for it.
C9_ChannelIsolation ==
    \A s \in SubIds :
        /\ \A i \in 1..Len(hist[s]) : chan[s] \in Named(hist[s][i].chs)
        /\ \A i \in 1..Len(cout[s]) : chan[s] \in Named(cout[s][i])

\* A subscriber of "b" registered while an event went to "a" alone: it has
\* the event before, and a subscriber of "a" has the one for "a".
C9_Witness ==
    \E s, u \in SubIds :
        /\ chan[s] = "b" /\ chan[u] = "a"
        /\ hist[s] = <<Live(1, <<"b">>)>>
        /\ hist[u] = <<Live(2, <<"a">>)>>
        /\ s \in Members
        /\ pc = "select"

\* C10: a subscription whose queue no fan-out found full has received the
\* live events published to its channel since it was admitted: all of them,
\* once each, in publish order (but for the event now being fanned out).
C10_InOrderLive ==
    \A s \in SubIds :
        (~owed[s] /\ OncePerPublish(s)) =>
            LiveOf(hist[s]) =
                IF Unvisited(s) THEN Front(expect[s]) ELSE expect[s]

\* A subscription that kept up has received every event of the run.
C10_Witness ==
    \E s \in SubIds :
        /\ ~owed[s]
        /\ OncePerPublish(s)
        /\ pc = "select"
        /\ Len(LiveOf(hist[s])) = MaxEvents
        /\ \A i \in 1..MaxEvents : LiveOf(hist[s])[i].n = i

---------------------------------------------------------------------------
\* C11: a Publish or PublishComment that names a dead channel is a no-op for
\* it: the fan-out never has a subscription of a dead channel to visit, so
\* it changes no queue and issues no Unregister for one.
C11_DeadChannelPublishNoop ==
    pc = "fanout" => \A s \in cur.todo : chan[s] \notin deadChannels

\* C12: a Publish makes one delivery attempt per subscription, whatever the
\* channels list: no live event is on a subscription's queue twice.
C12_OneAttemptPerPublish ==
    \A s \in SubIds :
        \A i, j \in 1..Len(hist[s]) :
            (i # j /\ IsLive(hist[s][i])) => hist[s][i] # hist[s][j]

\* One pass of a fan-out sends on the queue of its kind, or issues the
\* Unregister when that queue is full, and leaves the other queues alone;
\* taking a Publish or PublishComment from the inbox changes no queue.
C13_Pass ==
    /\ (pc = "select" /\ cur' # cur) => (hist' = hist /\ cout' = cout)
    /\ (pc = "fanout" /\ cur' # cur /\ cur.kind = "cmt") =>
           /\ hist' = hist
           /\ \E s \in cur.todo :
                  IF Len(cout[s]) < bufferSize
                  THEN /\ cout' = [cout EXCEPT ![s] = Append(@, cur.cmt)]
                       /\ pc' # "unreg_send"
                  ELSE /\ cout' = cout
                       /\ pc' = "unreg_send"
                       /\ cur'.pend = s
    /\ (pc = "fanout" /\ cur' # cur /\ cur.kind = "pub") =>
           /\ cout' = cout
           /\ \E s \in cur.todo :
                  IF Len(out(s)) < bufferSize
                  THEN /\ hist' = [hist EXCEPT ![s] = Append(@, cur.item)]
                       /\ pc' # "unreg_send"
                  ELSE /\ hist' = hist
                       /\ pc' = "unreg_send"
                       /\ cur'.pend = s

\* C13: PublishComment changes only comment queues and Publish only event
\* queues, and a full comment queue gets its subscriber an Unregister as a
\* full event queue does, whatever room the other queue has.
C13_SeparatePaths == [][C13_Pass]_vars

\* A comment found the comment queue full while the event queue was empty,
\* and the Unregister for the subscriber is being sent.
C13_Witness ==
    \E s \in SubIds :
        /\ pc = "unreg_send"
        /\ cur.kind = "cmt"
        /\ cur.pend = s
        /\ Len(cout[s]) = bufferSize
        /\ out(s) = <<>>
        /\ hist[s] # <<>>

\* The actor's processing of the Subscribe of s: the subscription is
\* admitted, and a replay is started exactly when replay is wanted and a
\* repository has been registered for the channel; it reads the repository of
\* the latest Register call for the channel.
C14_Admit ==
    \A s \in SubIds :
        (hpc[s] = "sending" /\ hpc'[s] = "loop") =>
            /\ chan[s] \in DOMAIN subs' /\ s \in subs'[chan[s]]
            /\ rpc'[s] # "none" <=>
                   /\ replayAll \/ lastId[s] # ""
                   /\ chan[s] \in DOMAIN installed
            /\ rpc'[s] = "run" =>
                   stream'[s] = Replay(installed[chan[s]], chan[s], lastId[s])
            /\ rpc'[s] = "done" =>
                   Replay(installed[chan[s]], chan[s], lastId[s]) = <<>>

\* Without a replay no replayed event is on the queue; with one, the
\* events sent and those still to send are what the repository gave.
C14_NoReplayNoEvents ==
    \A s \in SubIds :
        /\ rpc[s] = "none" => ReplayOf(hist[s]) = <<>> /\ stream[s] = <<>>
        /\ hpc[s] \in {"idle", "gone", "refused", "sending"} => rpc[s] = "none"

\* C14: a replay task is spawned on Subscribe if and only if (ReplayAll or a
\* non-empty lastEventId) and a repository is registered for the channel
\* when the actor processes it; it uses the repository installed last; with
\* none the subscription is admitted live and gets no replayed event.
C14_ReplaySpawn ==
    /\ []C14_NoReplayNoEvents
    /\ [][C14_Admit]_vars

\* ReplayAll with no Last-Event-ID: the replay of the whole of the repository
\* installed last has been spawned and has yet to send its first event.
C14_Witness ==
    \E s \in SubIds :
        /\ replayAll
        /\ lastId[s] = ""
        /\ rpc[s] = "run"
        /\ installed = [c \in {chan[s]} |-> "r2"]
        /\ stream[s] = Replay("r2", chan[s], "")
        /\ hist[s] = <<>>

\* C15: shutdown terminates: with Close called and fair scheduling, the
\* actor ends up taking the shutdown signal and marking the hub dead (unless
\* a panic has ended the process before).
C15_ShutdownTerminates == <>(dead \/ fault # NoFault)

\* C16: the dead markers are one-way: a channel marked dead stays marked
\* and a dead hub stays dead, whatever operation comes next.
C16_DeadIsOneWay ==
    [][(deadChannels \subseteq deadChannels') /\ (dead => dead')]_vars

\* A channel was closed and then subscribed to, and the hub was shut down
\* and then published to: both markers are still set.
C16_Witness ==
    \E s \in SubIds :
        /\ chan[s] \in deadChannels
        /\ destroyedBy[s] = "quit"
        /\ dead
        /\ fault = Panic(SendOnClosed, "Publish", 0)

\* C17: a subscription is destroyed at most once: the Unregister of a
\* subscription that CloseChannel has destroyed does not close its queues
\* again.
C17_DestroyedAtMostOnce ==
    \A s \in SubIds :
        ~(/\ fault = Panic(CloseOfClosed, "unregister", s)
          /\ destroyedBy[s] = "kill")

\* C20: after a delivery attempt to a subscription failed on a full queue no
\* later event is enqueued on it: the live events on its queue are a
\* gap-free prefix of the events published to its channel since its
\* admission.
C20_GapFreePrefix ==
    \A s \in SubIds :
        OncePerPublish(s) => IsPrefix(LiveOf(hist[s]), expect[s])

\* C18: while the actor runs, no subscription in a subscriber set has
\* closed queues, so no fan-out pass sends on a destroyed subscription.
C18_MembersAreOpen ==
    /\ ~dead => \A s \in Members : ~closed(s)
    /\ \A s \in SubIds : fault # Panic(SendOnClosed, "fanout", s)

\* A fan-out is visiting a subscriber of a channel one of whose subscribers
\* was destroyed and removed before.
C18_Witness ==
    \E s, u \in SubIds :
        /\ destroyedBy[s] = "unregister"
        /\ chan[s] = chan[u]
        /\ s \notin Members
        /\ pc = "fanout"
        /\ u \in cur.todo

\* While a fan-out is in progress the subscriber sets do not change, and a
\* handler waiting to subscribe keeps waiting.
C19_Frozen ==
    pc \in {"fanout", "unreg_send"} =>
        /\ subs' = subs
        /\ \A s \in SubIds : hpc[s] = "sending" => hpc'[s] = "sending"

\* C19: the fan-out of a Publish or PublishComment is atomic with respect to
\* membership: Subscribe and Unregister requests that arrive during it,
\* those it issues itself included, take effect after it has completed.
C19_FanoutAtomic == [][C19_Frozen]_vars

\* In the middle of a fan-out a handler waits to subscribe and the
\* Unregister of a current subscriber waits in the inbox.
C19_Witness ==
    \E s, u \in SubIds :
        /\ pc = "fanout"
        /\ hpc[s] = "sending"
        /\ u \in Members
        /\ InSeq(u, unregister)
        /\ owed[u]

=============================================================================
